---- MODULE Spec2Model ----
(***************************************************************************)
(* Threshold evaluation and notification throttling of weewx-pushover.     *)
(*                                                                         *)
(* Two services are modelled: Notify (bin/user/notify.py, notifier class   *)
(* PushOver) and Pushover (bin/user/pushover.py, notifier class Pusher).   *)
(* The variable `service` says which one runs.  One cycle (new_loop_packet *)
(* or new_archive_record) is one action.  The clock is read in whole       *)
(* seconds; all clock reads of one cycle return the same instant.          *)
(***************************************************************************)
EXTENDS Integers, Sequences, FiniteSets, TLC

\* ---------------------------------------------------------------- bounds
\* Largest configured 'count' (the code's default is 10).
MaxCount == 2
\* The configured wait_time, client_error_log_frequency and
\* server_error_wait_period, in seconds (the code's defaults are all 3600).
Period == 2
\* Largest observation value delivered by the host (values are 0..MaxValue).
MaxValue == 1

\* Largest number of seconds between two cycles.
MaxStep == Period
\* Number of seconds after start that cycles are delivered.
MaxTime == Period + 1
\* Cycles are delivered while every counter is below this.
MaxCounter == MaxCount + 1
\* The clock at service start: an epoch time, later than any configured period.
StartTime == 2 * Period + 2

\* ------------------------------------------------------------- constants
\* The threshold 'value' of the min, max and equal sections of the configuration.
Threshold == [min |-> 1, max |-> 0, equal |-> 1]
\* A batch holds the key with a number, holds it with None, or does not hold it.
Values == 0 .. MaxValue
None == <<>>
Some(v) == <<v>>
\* The WeeWX name monitored by the one section of [[loop]] and of [[archive]].
Section == "a"

Abs(x) == IF x < 0 THEN -x ELSE x

\* dict helpers
Put(d, k, v) == [x \in DOMAIN d \cup {k} |-> IF x = k THEN v ELSE d[x]]
Del(d, k) == [x \in DOMAIN d \ {k} |-> d[x]]
EmptyDict == [x \in {} |-> 0]

\* HTTP responses a send can get: a status code and the kind of body.
\* "errors": JSON with an 'errors' list; "not_json": not JSON;
\* "no_errors": valid JSON without an 'errors' list.
Responses ==
    {[code |-> 200, body |-> "errors"]}
    \cup {[code |-> c, body |-> b] : c \in {302, 429, 500}, b \in {"errors", "not_json", "no_errors"}}
\* The connection or the request fails before a response exists.
ConnectionFailure == [code |-> 0, body |-> "none"]
Outcomes == Responses \cup {ConnectionFailure}

VARIABLES
    service,              \* "Notify" (notify.py) or "Pushover" (pushover.py)
    loop_observations,    \* self.loop_observations: section -> observation
    archive_observations, \* self.archive_observations: section -> observation
    missing_observations, \* self.missing_observations: weewx name -> record
    notifier,             \* the PushOver / Pusher object
    now,                  \* the clock, seconds
    cycle,                \* what the last cycle was given and how it ended
    events,               \* the notifications of the last cycle, in order
    history               \* per binding and check: streak length and send times

vars == <<service, loop_observations, archive_observations, missing_observations,
          notifier, now, cycle, events, history>>

\* ------------------------------------------------------- init_observations
\* The state of one configured check after init_observations.
InitDetail(value_type, count, wait_time, return_notification) ==
    IF value_type = "missing"
    THEN [count |-> count, wait_time |-> wait_time,
          return_notification |-> return_notification,
          last_sent_timestamp |-> 0, counter |-> 0]
    ELSE [value |-> Threshold[value_type],
          count |-> count, wait_time |-> wait_time,
          return_notification |-> return_notification,
          last_sent_timestamp |-> 0, counter |-> 0,
          threshold_passed |-> <<>>]

\* An observation with the given check sections; threshold_passed = <<>> is
\* the key not being in the dict, <<r>> is the key holding r.
InitObservations(types, count, wait_time, return_notification) ==
    [k \in types \cup {"weewx_name"} |->
        IF k = "weewx_name" THEN Section
        ELSE InitDetail(k, count, wait_time, return_notification)]

\* --------------------------------------------------- check_{min,max,equal}_value
\* Mutation: the wait time is never looked at.
WaitTimeIgnored(time_delta, od) == time_delta >= 0

\* Mutation: '>' for '>='.
WaitTimeElapsedLate(time_delta, od) == time_delta > od.wait_time

\* 'if time_delta >= observation_detail['wait_time']'
WaitTimeElapsed(time_delta, od) == time_delta >= od.wait_time

\* Mutation: '>' for '>='.
CountReachedLate(od) == od.counter > od.count

\* 'if observation_detail['counter'] >= observation_detail['count']'
CountReached(od) == od.counter >= od.count

\* Mutation: the end of a streak puts last_sent_timestamp back to 0.
StreakClearedToZero(od) == [od EXCEPT !.counter = 0, !.last_sent_timestamp = 0]

\* The end of a violation or missing streak: the counter is reset and
\* last_sent_timestamp is set to the sentinel 1.
StreakCleared(od) == [od EXCEPT !.counter = 0, !.last_sent_timestamp = 1]

\* Mutation: the cleared notification does not depend on return_notification.
ClearedDueUnrequested(od) == od.threshold_passed[1].notification_count > 0

\* 'if threshold_passed['notification_count'] > 0: if return_notification'
ClearedDue(od) ==
    /\ od.threshold_passed[1].notification_count > 0
    /\ od.return_notification

\* Mutation: the violation record is never created.
RecordViolationSkipped(first, od, t) == od

\* Mutation: the violation record is stamped again on every violating cycle.
RecordViolationEveryCycle(first, od, t) ==
    [od EXCEPT !.threshold_passed =
        <<[timestamp |-> t,
           notification_count |-> IF first THEN 0 ELSE @[1].notification_count]>>]

\* On the first violating cycle: 'threshold_passed = {}', 'timestamp = now',
\* 'notification_count = 0'.
RecordViolation(first, od, t) ==
    IF first
    THEN [od EXCEPT !.threshold_passed = <<[timestamp |-> t, notification_count |-> 0]>>]
    ELSE od

\* The body shared by check_min_value, check_max_value and check_equal_value;
\* `outside` is the comparison of the value with the threshold.
\* Returns the new observation_detail, the result (<<>> is None) and whether
\* a KeyError was raised by reading a threshold_passed that does not exist.
CheckThreshold(svc, outside, od, value, t) ==
    LET time_delta == Abs(t - od.last_sent_timestamp)
        result2 == [threshold_value |-> Some(od.value), current_value |-> Some(value)]
        first == IF svc = "Notify" THEN od.counter = 0 ELSE od.threshold_passed = <<>>
        in_violation == IF svc = "Notify" THEN od.counter > 0 ELSE od.threshold_passed # <<>>
    IN
    IF outside THEN
        LET od1 == RecordViolation(first, od, t)
            od2 == [od1 EXCEPT !.counter = @ + 1]
        IN
        IF WaitTimeElapsed(time_delta, od2) /\ CountReached(od2)
        THEN IF od2.threshold_passed = <<>>
             THEN [od |-> od2, result |-> <<>>, error |-> TRUE]
             ELSE LET od3 == [od2 EXCEPT !.threshold_passed[1].notification_count = @ + 1]
                  IN [od |-> od3,
                      result |-> <<result2 @@
                                   [type |-> "outside",
                                    notifications_sent |-> od3.threshold_passed[1].notification_count,
                                    date_time |-> od3.threshold_passed[1].timestamp]>>,
                      error |-> FALSE]
        ELSE [od |-> od2, result |-> <<>>, error |-> FALSE]
    ELSE
        IF in_violation THEN
            IF od.threshold_passed = <<>>
            THEN [od |-> od, result |-> <<>>, error |-> TRUE]
            ELSE
            LET tp == od.threshold_passed[1]
                res == IF ClearedDue(od)
                       THEN <<result2 @@
                              [type |-> "within",
                               notifications_sent |-> tp.notification_count,
                               date_time |-> tp.timestamp]>>
                       ELSE <<>>
                od1 == StreakCleared(od)
                od2 == IF svc = "Notify" THEN od1
                       ELSE [od1 EXCEPT !.threshold_passed = <<>>]
            IN [od |-> od2, result |-> res, error |-> FALSE]
        ELSE [od |-> od, result |-> <<>>, error |-> FALSE]

CheckMinValue(svc, od, value, t) == CheckThreshold(svc, value < od.value, od, value, t)

CheckMaxValue(svc, od, value, t) == CheckThreshold(svc, value > od.value, od, value, t)

CheckEqualValue(svc, od, value, t) == CheckThreshold(svc, value # od.value, od, value, t)

\* ------------------------------------------------------ check_missing_value
\* Mutation: no startup bypass of the count.
MissingDueNoBypass(time_delta, od) ==
    /\ time_delta >= od.wait_time
    /\ od.counter >= od.count

\* Mutation: the count is never looked at.
MissingDueTimeOnly(time_delta, od) == time_delta >= od.wait_time

\* 'if time_delta >= wait_time: if counter >= count or last_sent_timestamp == 0'
MissingDue(time_delta, od) ==
    /\ time_delta >= od.wait_time
    /\ (od.counter >= od.count \/ od.last_sent_timestamp = 0)

\* Returns the new observation_detail, the new missing_observations, the
\* result and whether reading missing_observations[observation] raised.
CheckMissingValue(svc, od, mo, observation, t) ==
    LET time_delta == t - od.last_sent_timestamp
        create == IF svc = "Notify" THEN od.counter = 0 ELSE observation \notin DOMAIN mo
        mo1 == IF create
               THEN Put(mo, observation, [missing_time |-> t, notification_count |-> 0])
               ELSE mo
        od1 == [od EXCEPT !.counter = @ + 1]
    IN
    IF MissingDue(time_delta, od1)
    THEN IF observation \notin DOMAIN mo1
         THEN [od |-> od1, mo |-> mo1, result |-> <<>>, error |-> TRUE]
         ELSE LET mo2 == [mo1 EXCEPT ![observation].notification_count = @ + 1]
              IN [od |-> od1, mo |-> mo2,
                  result |-> <<[threshold_value |-> None, current_value |-> None,
                                type |-> "missing",
                                notifications_sent |-> mo2[observation].notification_count,
                                date_time |-> mo2[observation].missing_time]>>,
                  error |-> FALSE]
    ELSE [od |-> od1, mo |-> mo1, result |-> <<>>, error |-> FALSE]

\* ----------------------------------------------------- check_value_returned
\* Mutation: the returned notification does not depend on return_notification.
ReturnedDueUnrequested(od, tracker) == tracker.notification_count > 0

\* 'if missing_observations[observation]['notification_count'] > 0:
\*  if observation_detail['return_notification']'
ReturnedDue(od, tracker) ==
    /\ tracker.notification_count > 0
    /\ od.return_notification

\* Mutation: a first value leaves the startup last_sent_timestamp of 0.
FirstValueSeenSkipped(od) == od

\* 'if last_sent_timestamp == 0: last_sent_timestamp = 1': a value has been
\* found since the service started.
FirstValueSeen(od) ==
    IF od.last_sent_timestamp = 0
    THEN [od EXCEPT !.last_sent_timestamp = 1]
    ELSE od

CheckValueReturned(svc, od, mo, observation, value, t) ==
    LET was_missing == IF svc = "Notify" THEN od.counter > 0 ELSE observation \in DOMAIN mo
    IN
    IF was_missing /\ observation \notin DOMAIN mo
    THEN [od |-> od, mo |-> mo, result |-> <<>>, error |-> TRUE]
    ELSE
    LET res == IF was_missing /\ ReturnedDue(od, mo[observation])
               THEN <<[threshold_value |-> None, current_value |-> Some(value),
                       type |-> "returned",
                       notifications_sent |-> mo[observation].notification_count,
                       date_time |-> mo[observation].missing_time]>>
               ELSE <<>>
        od1 == IF was_missing THEN StreakCleared(od) ELSE od
        mo1 == IF was_missing /\ svc = "Pushover" THEN Del(mo, observation) ELSE mo
        od2 == FirstValueSeen(od1)
    IN [od |-> od2, mo |-> mo1, result |-> res, error |-> FALSE]

\* ------------------------------------------------------ throttle_notification
\* Returns the new notifier, whether the cycle is throttled and whether the
\* 'Fatal error occurred' line was logged.
ClientErrorRecent(n, t) ==
    /\ n.client_error_timestamp # 0
    /\ Abs(t - n.client_error_last_logged) < n.client_error_log_frequency

\* Mutation: '<=' for '<'.
ServerErrorRecentInclusive(n, t) ==
    Abs(t - n.server_error_timestamp) <= n.server_error_wait_period

\* Mutation: the stored time is compared without the clock.
ServerErrorRecentWithoutClock(n, t) ==
    n.server_error_timestamp < n.server_error_wait_period

ServerErrorRecent(n, t) ==
    Abs(t - n.server_error_timestamp) < n.server_error_wait_period

\* Mutation: a client error that is no longer recent is forgotten.
ThrottleNotificationClientExpires(n, t) ==
    IF ClientErrorRecent(n, t)
    THEN [notifier |-> [n EXCEPT !.client_error_last_logged = t],
          throttled |-> TRUE, logged |-> TRUE]
    ELSE IF ServerErrorRecent(n, t)
    THEN [notifier |-> n, throttled |-> TRUE, logged |-> FALSE]
    ELSE [notifier |-> [n EXCEPT !.server_error_timestamp = 0,
                                 !.client_error_timestamp = 0],
          throttled |-> FALSE, logged |-> FALSE]

ThrottleNotification(n, t) ==
    IF ClientErrorRecent(n, t)
    THEN [notifier |-> [n EXCEPT !.client_error_last_logged = t],
          throttled |-> TRUE, logged |-> TRUE]
    ELSE IF ServerErrorRecent(n, t)
    THEN [notifier |-> n, throttled |-> TRUE, logged |-> FALSE]
    ELSE [notifier |-> [n EXCEPT !.server_error_timestamp = 0],
          throttled |-> FALSE, logged |-> FALSE]

\* ------------------------------------------------------------ check_response
\* Returns the new notifier, whether the send counts as successful and
\* whether an exception left check_response ('errors' missing from the body).
\* Mutation: the client error range starts at 300.
CheckResponseFrom300(n, response, t) ==
    IF response.code = 200
    THEN [notifier |-> n, ok |-> TRUE, raised |-> FALSE]
    ELSE LET n1 == IF response.code >= 300 /\ response.code < 500
                   THEN [n EXCEPT !.client_error_timestamp = t,
                                  !.client_error_last_logged = t]
                   ELSE n
             n2 == IF response.code >= 500 /\ response.code < 600
                   THEN [n1 EXCEPT !.server_error_timestamp = t]
                   ELSE n1
         IN [notifier |-> n2, ok |-> FALSE, raised |-> response.body = "no_errors"]

\* Mutation: a body that cannot be parsed raises like a body without 'errors'.
CheckResponseUnparsedRaises(n, response, t) ==
    IF response.code = 200
    THEN [notifier |-> n, ok |-> TRUE, raised |-> FALSE]
    ELSE LET n1 == IF response.code >= 400 /\ response.code < 500
                   THEN [n EXCEPT !.client_error_timestamp = t,
                                  !.client_error_last_logged = t]
                   ELSE n
             n2 == IF response.code >= 500 /\ response.code < 600
                   THEN [n1 EXCEPT !.server_error_timestamp = t]
                   ELSE n1
         IN [notifier |-> n2, ok |-> FALSE, raised |-> response.body # "errors"]

CheckResponse(n, response, t) ==
    IF response.code = 200
    THEN [notifier |-> n, ok |-> TRUE, raised |-> FALSE]
    ELSE LET n1 == IF response.code >= 400 /\ response.code < 500
                   THEN [n EXCEPT !.client_error_timestamp = t,
                                  !.client_error_last_logged = t]
                   ELSE n
             n2 == IF response.code >= 500 /\ response.code < 600
                   THEN [n1 EXCEPT !.server_error_timestamp = t]
                   ELSE n1
         IN [notifier |-> n2, ok |-> FALSE, raised |-> response.body = "no_errors"]

\* ------------------------------------------------------------- build_message
\* The 'name' option of the observation's section (the display name).
Name == "Outdoor"

\* observation['label']: '' without a 'label' option, else ' (' + label + ')'.
InitLabel(label) == IF label = "" THEN "" ELSE " (" \o label \o ")"

Label == InitLabel("north")

\* str.format of a number.
Str(n) == ToString(n)

Pad2(n) == IF n < 10 THEN "0" \o ToString(n) ELSE ToString(n)

\* time.strftime("%Y-%m-%d %H:%M:%S %Z", time.localtime(ts)) for a clock within
\* the first day of the epoch and the local zone UTC.
FormatTimestamp(ts) ==
    "1970-01-01 " \o Pad2(ts \div 3600) \o ":" \o Pad2((ts \div 60) % 60)
        \o ":" \o Pad2(ts % 60) \o " UTC"

\* What the 'outside' templates of min, max and equal say of the threshold.
EnteredPhrase(threshold_type) ==
    CASE threshold_type = "min" -> "went below threshold of "
      [] threshold_type = "max" -> "went above threshold of "
      [] threshold_type = "equal" -> "is no longer equal to threshold of "

\* What the 'within' texts of pushover.py say of the threshold.
PushoverClearedPhrase(threshold_type) ==
    CASE threshold_type = "min" -> " under Min threshold at "
      [] threshold_type = "max" -> " over Max threshold at "
      [] threshold_type = "equal" -> " Not Equal at "

\* Mutation: the wording of pushover.py, 'under Min threshold'.
ClearedPhraseUnderMin(threshold_type) == PushoverClearedPhrase(threshold_type)

\* What the 'within' templates of min, max and equal say of the threshold.
ClearedPhrase(threshold_type) ==
    CASE threshold_type = "min" -> " over Min threshold at "
      [] threshold_type = "max" -> " over Max threshold at "
      [] threshold_type = "equal" -> " Not Equal at "

\* PushOver.build_message: the text of a notification.
BuildMessage(threshold_type, msg_data) ==
    LET date_time == FormatTimestamp(msg_data.date_time)
        notifications_sent == Str(msg_data.notifications_sent)
    IN
    IF threshold_type = "missing"
    THEN msg_data.name \o msg_data.label \o " missing at " \o date_time \o ", "
            \o notifications_sent \o " notifications sent.\n"
    ELSE IF threshold_type = "returned"
    THEN msg_data.name \o msg_data.label \o " missing at " \o date_time
            \o " returned with value " \o Str(msg_data.current_value[1]) \o ", "
            \o notifications_sent \o " notification sent.\n"
    ELSE IF msg_data.type = "outside"
    THEN "At " \o date_time \o " " \o msg_data.name \o msg_data.label \o " "
            \o EnteredPhrase(threshold_type) \o Str(msg_data.threshold_value[1])
            \o ". Current value is " \o Str(msg_data.current_value[1]) \o ". "
            \o notifications_sent \o " sent.\n"
    ELSE msg_data.name \o msg_data.label \o ClearedPhrase(threshold_type) \o date_time
            \o " is within threshold with value " \o Str(msg_data.current_value[1])
            \o ", " \o notifications_sent \o " notifications sent.\n"

\* The text the check methods of pushover.py build for the same results.
PushoverMessage(threshold_type, msg_data) ==
    LET date_time == FormatTimestamp(msg_data.date_time)
    IN
    IF threshold_type \in {"missing", "returned"}
    THEN BuildMessage(threshold_type, msg_data)
    ELSE IF msg_data.type = "outside"
    THEN "At " \o date_time \o " " \o msg_data.name \o msg_data.label \o " "
            \o EnteredPhrase(threshold_type) \o Str(msg_data.threshold_value[1])
            \o ". Current value is " \o Str(msg_data.current_value[1]) \o ".\n"
    ELSE msg_data.name \o msg_data.label \o PushoverClearedPhrase(threshold_type)
            \o date_time
            \o " is within threshold with value " \o Str(msg_data.current_value[1])
            \o ", " \o Str(msg_data.notifications_sent) \o " notifications sent.\n"

\* The title and the text that send_notification (Notify) and _process_data
\* with the check methods (Pushover) hand to the transport for a result.
Notification(svc, weewx_name, threshold_type, result) ==
    LET msg_data == result @@ [name |-> Name, label |-> Label]
    IN IF svc = "Notify"
       THEN [title |-> "Unexpected value for " \o msg_data.name \o ".",
             message |-> BuildMessage(threshold_type, msg_data)]
       ELSE [title |-> "Unexpected value for " \o weewx_name \o ".",
             message |-> PushoverMessage(threshold_type, msg_data)]

\* ---------------------------------------- send_notification / push_notification
\* Mutation: with 'send' off the send is reported as failed.
SendNotificationDryRunFails(n, outcome, t) ==
    IF ~n.send
    THEN [notifier |-> n, ok |-> FALSE, raised |-> FALSE]
    ELSE IF outcome = ConnectionFailure
    THEN [notifier |-> n, ok |-> FALSE, raised |-> TRUE]
    ELSE CheckResponse(n, outcome, t)

SendNotification(n, outcome, t) ==
    IF ~n.send
    THEN [notifier |-> n, ok |-> TRUE, raised |-> FALSE]
    ELSE IF outcome = ConnectionFailure
    THEN [notifier |-> n, ok |-> FALSE, raised |-> TRUE]
    ELSE CheckResponse(n, outcome, t)

\* What a send can meet: nothing is transmitted when 'send' is off.
OutcomesFor(n) == IF n.send THEN Outcomes ELSE {[code |-> 200, body |-> "errors"]}

\* Mutation: a successful send is not recorded in the observation.
DeliverUnrecorded(svc, c, type, result, outcome, t) ==
    LET s == SendNotification(c.notifier, outcome, t)
    IN [c EXCEPT !.notifier = s.notifier,
                 !.events = Append(@, result @@ [kind |-> type, code |-> outcome.code,
                                                  body |-> outcome.body,
                                                  sent |-> s.ok]
                                      @@ Notification(svc, c.obs.weewx_name, type, result)),
                 !.raised = s.raised]

\* Mutation: the send is recorded in the observation whether it succeeded or not.
DeliverAlwaysRecorded(svc, c, type, result, outcome, t) ==
    LET s == SendNotification(c.notifier, outcome, t)
        obs1 == IF type = "returned" THEN c.obs
                ELSE [c.obs EXCEPT ![type].last_sent_timestamp = t]
    IN [c EXCEPT !.obs = obs1,
                 !.notifier = s.notifier,
                 !.events = Append(@, result @@ [kind |-> type, code |-> outcome.code,
                                                  body |-> outcome.body,
                                                  sent |-> s.ok]
                                      @@ Notification(svc, c.obs.weewx_name, type, result)),
                 !.raised = s.raised]

\* The caller's handling of a result: send it and, when the send succeeded,
\* record it in the observation (Notify._process_data sets last_sent_timestamp
\* for min, max, equal and missing; Pusher.check_response / push_notification
\* set last_sent_timestamp and counter of every key that has a message; for
\* 'returned' that key is the observation's unused 'returned' dict).
Deliver(svc, c, type, result, outcome, t) ==
    LET s == SendNotification(c.notifier, outcome, t)
        obs1 == IF ~s.ok \/ type = "returned" THEN c.obs
                ELSE IF svc = "Notify"
                THEN [c.obs EXCEPT ![type].last_sent_timestamp = t]
                ELSE [c.obs EXCEPT ![type].last_sent_timestamp = t,
                                   ![type].counter = 0]
    IN [c EXCEPT !.obs = obs1,
                 !.notifier = s.notifier,
                 !.events = Append(@, result @@ [kind |-> type, code |-> outcome.code,
                                                  body |-> outcome.body,
                                                  sent |-> s.ok]
                                      @@ Notification(svc, c.obs.weewx_name, type, result)),
                 !.raised = s.raised]

\* -------------------------------------------------------------- _process_data
\* 'if observation in data and data[observation] is not None'
IsPresent(data, observation) == observation \in DOMAIN data /\ data[observation] # None

\* 'if observation not in data'
IsMissing(data, observation) == observation \notin DOMAIN data

\* The detail a check type works on ('returned' works on the missing section).
DetailType(type) == IF type = "returned" THEN "missing" ELSE type

\* Mutation: a cycle without a value ends the streak of the check.
NotEvaluatedEndsStreak(c, type) == [c EXCEPT !.obs[type] = StreakCleared(@)]

\* 'if observation in data and data[observation] is not None' is false: the
\* min, max and equal checks are not called and their details are not touched.
NotEvaluated(c, type) == c

\* One check of the observation: the contexts it can end in, one per outcome
\* of the send it makes.  A context that has raised runs nothing more.  The
\* trace of a context lists its checks and sends in the order they ran.
CheckStep(svc, c, type, data, t) ==
    LET observation == c.obs.weewx_name
        present == IsPresent(data, observation)
        absent == IsMissing(data, observation)
    IN
    IF c.raised \/ type \notin (DOMAIN c.obs \cup {"returned"}) THEN {c}
    ELSE IF type = "returned" /\ ("missing" \notin DOMAIN c.obs \/ ~present) THEN {c}
    ELSE IF type \in {"min", "max", "equal"} /\ ~present THEN {NotEvaluated(c, type)}
    ELSE IF type = "missing" /\ ~absent THEN {c}
    ELSE
    LET r == CASE type = "returned" ->
                    CheckValueReturned(svc, c.obs.missing, c.mo, observation,
                                       data[observation][1], t)
               [] type = "min" ->
                    CheckMinValue(svc, c.obs.min, data[observation][1], t) @@ [mo |-> c.mo]
               [] type = "max" ->
                    CheckMaxValue(svc, c.obs.max, data[observation][1], t) @@ [mo |-> c.mo]
               [] type = "equal" ->
                    CheckEqualValue(svc, c.obs.equal, data[observation][1], t) @@ [mo |-> c.mo]
               [] type = "missing" ->
                    CheckMissingValue(svc, c.obs.missing, c.mo, observation, t)
        detail_type == DetailType(type)
        c1 == [c EXCEPT !.obs[detail_type] = r.od, !.mo = r.mo,
                        !.evaluated = @ \cup {type},
                        !.trace = Append(@, [step |-> "check", kind |-> type])]
    IN
    IF r.error THEN {[c1 EXCEPT !.raised = TRUE]}
    ELSE IF r.result = <<>> THEN {c1}
    ELSE {[d EXCEPT !.trace = Append(@, [step |-> "send", kind |-> type])] :
             d \in {Deliver(svc, c1, type, r.result[1], o, t) : o \in OutcomesFor(c1.notifier)}}

CheckSteps(svc, C, type, data, t) == UNION {CheckStep(svc, c, type, data, t) : c \in C}

\* The contexts _process_data can end in for the one observation of the
\* binding: value-returned, min, max, equal, then missing.
ProcessData(svc, data, obs, mo, n, t) ==
    LET c0 == [obs |-> obs, mo |-> mo, notifier |-> n, events |-> <<>>,
               raised |-> FALSE, evaluated |-> {}, trace |-> <<>>]
        C1 == CheckSteps(svc, {c0}, "returned", data, t)
        C2 == CheckSteps(svc, C1, "min", data, t)
        C3 == CheckSteps(svc, C2, "max", data, t)
        C4 == CheckSteps(svc, C3, "equal", data, t)
    IN CheckSteps(svc, C4, "missing", data, t)

\* The batches the host delivers for the monitored name.
Batches == {EmptyDict} \cup {[x \in {Section} |-> d] : d \in {None} \cup {Some(v) : v \in Values}}

\* Mutation: the data is processed whatever throttle_notification returned.
CycleOutcomesUnthrottled(svc, data, obs, mo, throttle, t) ==
    ProcessData(svc, data, obs, mo, throttle.notifier, t)

\* 'if not self.notifier.throttle_notification(): self._process_data(...)'
\* A throttled cycle ends in the one context that evaluated nothing.
CycleOutcomes(svc, data, obs, mo, throttle, t) ==
    IF throttle.throttled
    THEN {[obs |-> obs, mo |-> mo, notifier |-> throttle.notifier, events |-> <<>>,
           raised |-> FALSE, evaluated |-> {}, trace |-> <<>>]}
    ELSE ProcessData(svc, data, obs, mo, throttle.notifier, t)

\* An entered-violation notification: 'outside' of min, max and equal, or 'missing'.
IsEntered(e) == e.type \in {"outside", "missing"}

\* The comparison each of check_min_value, check_max_value, check_equal_value makes.
Outside(type, value, threshold) ==
    CASE type = "min" -> value < threshold
      [] type = "max" -> value > threshold
      [] type = "equal" -> value # threshold

\* History of a check, kept beside the program state:
\*   streak  consecutive evaluated cycles in which the check's condition held
\*           (value outside the threshold, or the missing check was run);
\*   sent    time of the latest successful entered-violation send of the
\*           current streak, 0 if none;
\*   last_ok time of the latest successful entered-violation send, 0 if none;
\*   failed  the latest evaluation of the check emitted an entered-violation
\*           event whose send did not succeed;
\*   first   time of the first cycle of the current streak, 0 if none;
\*   emitted number of entered-violation events of the current streak.
NextHistory(old, c, data, t) ==
    [k \in DOMAIN old |->
        LET ended == IF k = "missing" THEN "returned" \in c.evaluated
                     ELSE k \in c.evaluated
                          /\ ~Outside(k, data[c.obs.weewx_name][1], c.obs[k].value)
            held == k \in c.evaluated /\ ~ended
            ok == \E i \in 1 .. Len(c.events) :
                     c.events[i].kind = k /\ IsEntered(c.events[i]) /\ c.events[i].sent
            failed == \E i \in 1 .. Len(c.events) :
                         c.events[i].kind = k /\ IsEntered(c.events[i]) /\ ~c.events[i].sent
            entered == Cardinality({i \in 1 .. Len(c.events) :
                                      c.events[i].kind = k /\ IsEntered(c.events[i])})
        IN IF ended THEN [old[k] EXCEPT !.streak = 0, !.sent = 0, !.failed = FALSE,
                                        !.first = 0, !.emitted = 0]
           ELSE IF held
           THEN [streak |-> IF old[k].streak < MaxCounter THEN old[k].streak + 1
                            ELSE old[k].streak,
                 sent |-> IF ok THEN t ELSE old[k].sent,
                 last_ok |-> IF ok THEN t ELSE old[k].last_ok,
                 failed |-> failed,
                 first |-> IF old[k].streak = 0 THEN t ELSE old[k].first,
                 emitted |-> old[k].emitted + entered]
           ELSE old[k]]

\* Cycles are delivered while the clock and the counters are within bounds.
Deliverable(observations, dt) ==
    /\ now + dt <= StartTime + MaxTime
    /\ \A s \in DOMAIN observations :
         \A k \in DOMAIN observations[s] \ {"weewx_name"} :
            observations[s][k].counter < MaxCounter

\* ------------------------------------------ new_loop_packet / new_archive_record
\* What a cycle leaves behind besides the observations of its binding.
Handle(binding, data, t, c, throttle) ==
    /\ now' = t
    /\ notifier' = c.notifier
    /\ missing_observations' = c.mo
    /\ events' = [i \in 1 .. Len(c.events) |->
                    c.events[i] @@
                    [prev_sent |-> history[binding][DetailType(c.events[i].kind)].sent,
                     prev_ok |-> history[binding][DetailType(c.events[i].kind)].last_ok]]
    /\ cycle' = [binding |-> binding, data |-> data, throttled |-> throttle.throttled,
                 logged |-> throttle.logged, raised |-> c.raised,
                 resumed |-> ~throttle.throttled /\ notifier.server_error_timestamp # 0,
                 trace |-> c.trace]
    /\ history' = [history EXCEPT ![binding] = NextHistory(@, c, data, t)]
    /\ UNCHANGED service

\* The handler called dt seconds after the previous cycle with the batch.
LoopPacket(dt, data) ==
    /\ Section \in DOMAIN loop_observations
    /\ LET t == now + dt
           throttle == ThrottleNotification(notifier, t)
       IN \E c \in CycleOutcomes(service, data, loop_observations[Section],
                                 missing_observations, throttle, t) :
            /\ loop_observations' = [loop_observations EXCEPT ![Section] = c.obs]
            /\ UNCHANGED archive_observations
            /\ Handle("loop", data, t, c, throttle)

NewLoopPacket ==
    \E dt \in 0 .. MaxStep, data \in Batches :
        /\ Deliverable(loop_observations, dt)
        /\ LoopPacket(dt, data)

ArchiveRecord(dt, data) ==
    /\ Section \in DOMAIN archive_observations
    /\ LET t == now + dt
           throttle == ThrottleNotification(notifier, t)
       IN \E c \in CycleOutcomes(service, data, archive_observations[Section],
                                 missing_observations, throttle, t) :
            /\ archive_observations' = [archive_observations EXCEPT ![Section] = c.obs]
            /\ UNCHANGED loop_observations
            /\ Handle("archive", data, t, c, throttle)

NewArchiveRecord ==
    \E dt \in 0 .. MaxStep, data \in Batches :
        /\ Deliverable(archive_observations, dt)
        /\ ArchiveRecord(dt, data)

\* ------------------------------------------------------------------- __init__
\* The configurations the service is started with: the check sections of the
\* one observation of [[loop]] and of [[archive]] ({} is no observation).
Configurations ==
    {[loop |-> {"min"}, archive |-> {}],
     [loop |-> {}, archive |-> {"max"}],
     [loop |-> {"equal"}, archive |-> {}],
     [loop |-> {}, archive |-> {"missing"}]}

InitNotifier(send) ==
    [send |-> send,
     client_error_log_frequency |-> Period,
     server_error_wait_period |-> Period,
     client_error_timestamp |-> 0,
     client_error_last_logged |-> 0,
     server_error_timestamp |-> 0]

InitBinding(types, count, wait_time, return_notification) ==
    [s \in (IF types = {} THEN {} ELSE {Section}) |->
        InitObservations(types, count, wait_time, return_notification)]

\* The service after __init__ at clock time `start`, for a configuration of
\* the given ones whose sections have a 'count' of the given ones.
InitServiceWith(svc, send, configurations, counts, start) ==
    /\ service = svc
    /\ \E cfg \in configurations, count \in counts, return_notification \in BOOLEAN :
         /\ loop_observations = InitBinding(cfg.loop, count, Period, return_notification)
         /\ archive_observations = InitBinding(cfg.archive, count, Period, return_notification)
         /\ history = [b \in {"loop", "archive"} |->
                         [k \in cfg[b] |-> [streak |-> 0, sent |-> 0, last_ok |-> 0,
                                             failed |-> FALSE, first |-> 0,
                                             emitted |-> 0]]]
    /\ missing_observations = EmptyDict
    /\ notifier = InitNotifier(send)
    /\ now = start
    /\ cycle = [binding |-> "none", data |-> EmptyDict, throttled |-> FALSE,
                logged |-> FALSE, raised |-> FALSE, resumed |-> FALSE,
                trace |-> <<>>]
    /\ events = <<>>

InitService(svc, send, configurations) ==
    InitServiceWith(svc, send, configurations, 1 .. MaxCount, StartTime)

Init == InitService("Notify", TRUE, Configurations)

Next == NewLoopPacket \/ NewArchiveRecord

Spec == Init /\ [][Next]_vars

\* The service with 'send = false' in the configuration of the notifier.
InitNoSend == InitService("Notify", FALSE, Configurations)

SpecNoSend == InitNoSend /\ [][Next]_vars

\* The service of pushover.py, class Pushover with the notifier Pusher.
InitPushover == InitService("Pushover", TRUE, Configurations)

SpecPushover == InitPushover /\ [][Next]_vars

\* Either service: the behaviours of notify.py and those of pushover.py.
InitBoth == Init \/ InitPushover

SpecBoth == InitBoth /\ [][Next]_vars

\* The service with an observation that has two check sections with count = 1,
\* whose checks can both notify in one cycle, started Period seconds later.
TwoCheckConfigurations ==
    {[loop |-> {"min", "equal"}, archive |-> {}],
     [loop |-> {}, archive |-> {"missing"}]}

InitTwoChecks == InitServiceWith("Notify", TRUE, TwoCheckConfigurations, {1}, StartTime + Period)

SpecTwoChecks == InitTwoChecks /\ [][Next]_vars

\* The service with the same observation under [[loop]] and under [[archive]],
\* each with a missing section with count = 1, started Period seconds later.
SharedMissingConfigurations == {[loop |-> {"missing"}, archive |-> {"missing"}]}

InitSharedMissing ==
    InitServiceWith("Notify", TRUE, SharedMissingConfigurations, {1}, StartTime + Period)

SpecSharedMissing == InitSharedMissing /\ [][Next]_vars

\* The service in a persisting condition: every cycle comes later than the one
\* before, finds the observation outside the threshold of its min, max or equal
\* section (or, for a missing section, not in the batch), and every send is
\* answered with 200.  Cycles keep arriving until the clock reaches its bound.
ViolationPersists(observations, data) ==
    \A k \in DOMAIN observations[Section] \ {"weewx_name"} :
        IF k = "missing" THEN IsMissing(data, Section)
        ELSE /\ IsPresent(data, Section)
             /\ Outside(k, data[Section][1], observations[Section][k].value)

EverySendSucceeds == \A i \in 1 .. Len(events) : events[i].code = 200

LiveLoopPacket ==
    \E dt \in 1 .. MaxStep, data \in Batches :
        /\ now + dt <= StartTime + MaxTime
        /\ Section \in DOMAIN loop_observations
        /\ ViolationPersists(loop_observations, data)
        /\ LoopPacket(dt, data)
        /\ EverySendSucceeds'

LiveArchiveRecord ==
    \E dt \in 1 .. MaxStep, data \in Batches :
        /\ now + dt <= StartTime + MaxTime
        /\ Section \in DOMAIN archive_observations
        /\ ViolationPersists(archive_observations, data)
        /\ ArchiveRecord(dt, data)
        /\ EverySendSucceeds'

LiveNext == LiveLoopPacket \/ LiveArchiveRecord

InitLive == InitServiceWith("Notify", TRUE, Configurations, 1 .. MaxCount, StartTime - Period)

SpecLive == InitLive /\ [][LiveNext]_vars /\ WF_vars(LiveNext)

\* ===================================================================== properties
Bindings == {"loop", "archive"}
ValueTypes == {"min", "max", "equal"}
CheckTypes == ValueTypes \cup {"missing"}

\* The observation of a binding, and whether it has a section of the type.
ObservationOf(b) ==
    IF b = "loop" THEN loop_observations[Section] ELSE archive_observations[Section]

Configured(b, type) ==
    /\ Section \in DOMAIN (IF b = "loop" THEN loop_observations ELSE archive_observations)
    /\ type \in DOMAIN ObservationOf(b)

\* The entered-violation events of a check in a sequence of events.
Entered(evs, type) == SelectSeq(evs, LAMBDA e : e.kind = type /\ IsEntered(e))

\* The last cycle gave the observation a number.
CycleValue == cycle.data[Section][1]

\* C1: for a min, max or equal check with count N whose wait time has elapsed,
\* the cycles 1..N-1 of a violation that starts from a non-violating state
\* emit no 'outside' event, and cycle N emits exactly one, reporting
\* notifications_sent = 1.
C1_NthViolatingCycleNotifiesOnce ==
    [][\A b \in Bindings : \A k \in ValueTypes :
          (/\ Configured(b, k)
           /\ cycle'.binding = b
           /\ history'[b][k].streak = history[b][k].streak + 1)
          => LET od == ObservationOf(b)[k]
                 n == history'[b][k].streak
                 entered == Entered(events', k)
             IN /\ n < od.count => entered = <<>>
                /\ (n = od.count /\ Abs(now' - od.last_sent_timestamp) >= od.wait_time)
                      => /\ Len(entered) = 1
                         /\ entered[1].notifications_sent = 1]_vars

C1_Witness ==
    \E b \in Bindings : \E k \in ValueTypes :
        /\ Configured(b, k)
        /\ cycle.binding = b
        /\ ObservationOf(b)[k].count >= 2
        /\ history[b][k].streak = ObservationOf(b)[k].count
        /\ Len(Entered(events, k)) = 1
        /\ Entered(events, k)[1].notifications_sent = 1

\* C2: while now - last_sent_timestamp < wait_time for a last_sent_timestamp
\* that a successful send has set, a cycle emits no entered-violation event of
\* that check, whatever its counter.
C2_NoEventBeforeWaitTime ==
    [][\A b \in Bindings : \A k \in CheckTypes :
          (/\ Configured(b, k)
           /\ cycle'.binding = b
           /\ ObservationOf(b)[k].last_sent_timestamp \notin {0, 1}
           /\ now' - ObservationOf(b)[k].last_sent_timestamp < ObservationOf(b)[k].wait_time)
          => Entered(events', k) = <<>>]_vars

C2_Witness ==
    \E b \in Bindings : \E k \in ValueTypes :
        /\ Configured(b, k)
        /\ cycle.binding = b
        /\ ~cycle.throttled
        /\ IsPresent(cycle.data, Section)
        /\ Outside(k, CycleValue, ObservationOf(b)[k].value)
        /\ ObservationOf(b)[k].counter > ObservationOf(b)[k].count
        /\ ObservationOf(b)[k].last_sent_timestamp \notin {0, 1}
        /\ now - ObservationOf(b)[k].last_sent_timestamp < ObservationOf(b)[k].wait_time
        /\ events = <<>>

\* C3 as specified: any two successful entered-violation notifications of a
\* check are at least wait_time apart, also when the value was back within
\* the threshold between them.
C3_AnyTwoSendsWaitTimeApart ==
    \A i \in 1 .. Len(events) :
        (IsEntered(events[i]) /\ events[i].sent /\ events[i].prev_ok # 0)
        => now - events[i].prev_ok >= ObservationOf(cycle.binding)[events[i].kind].wait_time

\* C3 as amended: two successful entered-violation notifications of a check
\* in the same streak (the violation was not cleared between them) are at
\* least wait_time apart.
C3_SendsOfOneStreakWaitTimeApart ==
    \A i \in 1 .. Len(events) :
        (IsEntered(events[i]) /\ events[i].sent /\ events[i].prev_sent # 0)
        => now - events[i].prev_sent >= ObservationOf(cycle.binding)[events[i].kind].wait_time

C3_Witness ==
    \E i \in 1 .. Len(events) :
        /\ IsEntered(events[i]) /\ events[i].sent
        /\ events[i].prev_sent # 0
        /\ events[i].notifications_sent >= 2

\* C4 as specified: once a 400-499 response has been received, every later
\* cycle is throttled and attempts no send.
C4_ClientErrorHaltsEveryLaterCycle ==
    [][notifier.client_error_timestamp # 0
          => cycle'.throttled /\ events' = <<>>]_vars

\* The post-state of a cycle of binding b is one that _process_data can
\* produce from the given batch and notifier.
ProcessedAs(b, data, n) ==
    \E c \in ProcessData(service, data, ObservationOf(b), missing_observations, n, now') :
        /\ c.obs = ObservationOf(b)'
        /\ c.mo = missing_observations'
        /\ c.notifier = notifier'
        /\ Len(c.events) = Len(events')
        /\ \A i \in 1 .. Len(c.events) :
              /\ c.events[i].kind = events'[i].kind
              /\ c.events[i].type = events'[i].type

\* C5: after a 500-599 response at time T with no client error recorded, a
\* cycle with now - T < server_error_wait_period is skipped without
\* evaluation, and the first cycle with now - T >= server_error_wait_period
\* is processed as by a notifier whose server_error_timestamp is 0.
C5_ServerErrorBacksOffThenResumes ==
    [][(notifier.server_error_timestamp # 0 /\ notifier.client_error_timestamp = 0)
          => IF now' - notifier.server_error_timestamp < notifier.server_error_wait_period
             THEN /\ cycle'.throttled
                  /\ events' = <<>>
                  /\ UNCHANGED <<loop_observations, archive_observations,
                                 missing_observations, notifier>>
             ELSE /\ ~cycle'.throttled
                  /\ \E b \in Bindings :
                        /\ cycle'.binding = b
                        /\ ProcessedAs(b, cycle'.data,
                                       [notifier EXCEPT !.server_error_timestamp = 0])
                  /\ (\A i \in 1 .. Len(events') : events'[i].code < 500)
                        => notifier'.server_error_timestamp = 0]_vars

C5_Witness ==
    /\ cycle.resumed
    /\ notifier.client_error_timestamp = 0
    /\ notifier.server_error_timestamp = 0
    /\ events # <<>>

\* C6: a cycle in which throttle_notification returns True evaluates no check
\* and attempts no send: counters, last_sent_timestamps, violation records
\* and missing_observations are as before the cycle.
C6_ThrottledCycleChangesNothing ==
    [][cycle'.throttled
          => /\ UNCHANGED <<loop_observations, archive_observations, missing_observations>>
             /\ events' = <<>>]_vars

C6_Witness ==
    \E b \in Bindings : \E k \in ValueTypes :
        /\ Configured(b, k)
        /\ cycle.binding = b
        /\ cycle.throttled
        /\ IsPresent(cycle.data, Section)
        /\ Outside(k, CycleValue, ObservationOf(b)[k].value)
        /\ ObservationOf(b)[k].counter > 0

\* C7 as specified: a cycle whose batch holds the key with a null value is
\* treated like a cycle whose batch does not hold the key: the missing check
\* runs.
C7_NullValueIsTreatedAsMissing ==
    [][\A b \in Bindings :
          (/\ Configured(b, "missing")
           /\ cycle'.binding = b
           /\ ~cycle'.throttled
           /\ Section \in DOMAIN cycle'.data
           /\ cycle'.data[Section] = None)
          => ProcessedAs(b, EmptyDict, ThrottleNotification(notifier, now').notifier)]_vars

\* C8: for a missing check whose last_sent_timestamp is still 0, the first
\* cycle without the observation emits a missing event with
\* notifications_sent = 1 and creates the missing_observations entry with
\* missing_time = now, for every count.
C8_FirstMissingCycleAtStartupNotifies ==
    [][\A b \in Bindings :
          (/\ Configured(b, "missing")
           /\ cycle'.binding = b
           /\ ~cycle'.throttled
           /\ IsMissing(cycle'.data, Section)
           /\ ObservationOf(b).missing.last_sent_timestamp = 0
           /\ history[b].missing.streak = 0)
          => /\ Len(events') = 1
             /\ events'[1].kind = "missing"
             /\ events'[1].type = "missing"
             /\ events'[1].notifications_sent = 1
             /\ events'[1].date_time = now'
             /\ Section \in DOMAIN missing_observations'
             /\ missing_observations'[Section].missing_time = now']_vars

C8_Witness ==
    \E b \in Bindings :
        /\ Configured(b, "missing")
        /\ cycle.binding = b
        /\ ObservationOf(b).missing.count >= 2
        /\ ObservationOf(b).missing.counter = 1
        /\ history[b].missing.streak = 1
        /\ Len(events) = 1
        /\ events[1].type = "missing"
        /\ events[1].notifications_sent = 1
        /\ missing_observations[Section].missing_time = now

\* C9: for a missing check whose last_sent_timestamp is not 0, a cycle
\* without the observation increments the counter by one and emits a missing
\* event exactly when now - last_sent_timestamp >= wait_time and the
\* incremented counter >= count.
C9_MissingNeedsTimeAndCount ==
    [][\A b \in Bindings :
          (/\ Configured(b, "missing")
           /\ cycle'.binding = b
           /\ ~cycle'.throttled
           /\ IsMissing(cycle'.data, Section)
           /\ ObservationOf(b).missing.last_sent_timestamp # 0)
          => LET od == ObservationOf(b).missing
             IN /\ ObservationOf(b)'.missing.counter = od.counter + 1
                /\ (Entered(events', "missing") # <<>>)
                      <=> (/\ now' - od.last_sent_timestamp >= od.wait_time
                           /\ od.counter + 1 >= od.count)]_vars

C9_Witness ==
    \E b \in Bindings :
        /\ Configured(b, "missing")
        /\ cycle.binding = b
        /\ ~cycle.throttled
        /\ IsMissing(cycle.data, Section)
        /\ events = <<>>
        /\ ObservationOf(b).missing.last_sent_timestamp > 1
        /\ ObservationOf(b).missing.counter >= ObservationOf(b).missing.count
        /\ now - ObservationOf(b).missing.last_sent_timestamp
              < ObservationOf(b).missing.wait_time

\* C10 as specified: when a non-violating value ends a violation streak of a
\* min, max or equal check, the cycle leaves its counter 0 and its
\* last_sent_timestamp the sentinel 1; the streak that follows emits its
\* first event on its count-th consecutive violating cycle and not before.
C10_ClearedStreakStartsOver ==
    [][\A b \in Bindings : \A k \in ValueTypes :
          (Configured(b, k) /\ cycle'.binding = b)
          => LET od == ObservationOf(b)[k]
                 od_after == ObservationOf(b)'[k]
                 entered == Entered(events', k)
             IN /\ (history[b][k].streak > 0 /\ history'[b][k].streak = 0)
                      => od_after.counter = 0 /\ od_after.last_sent_timestamp = 1
                /\ (od.last_sent_timestamp = 1
                    /\ history'[b][k].streak = history[b][k].streak + 1)
                      => /\ entered # <<>> => history'[b][k].streak >= od.count
                         /\ history'[b][k].streak = od.count
                               => /\ Len(entered) = 1
                                  /\ entered[1].notifications_sent = 1]_vars

\* The events of one type ('within', 'returned', ...) in a sequence of events.
OfType(evs, type) == SelectSeq(evs, LAMBDA e : e.type = type)

\* C11 as specified: for an observation that has never gone missing (no
\* missing_observations entry, missing counter 0) a cycle that delivers a value
\* emits nothing and changes no state, the first cycle after startup included.
C11_ValueOfNeverMissingChangesNothing ==
    [][\A b \in Bindings :
          (/\ Configured(b, "missing")
           /\ cycle'.binding = b
           /\ ~cycle'.throttled
           /\ IsPresent(cycle'.data, Section)
           /\ ObservationOf(b).missing.counter = 0
           /\ Section \notin DOMAIN missing_observations)
          => /\ events' = <<>>
             /\ UNCHANGED <<loop_observations, archive_observations,
                            missing_observations>>]_vars

\* C11 as amended: for an observation that has never gone missing a cycle
\* that delivers a value emits nothing and leaves the missing check's counter
\* and missing_observations as they were; last_sent_timestamp is left as it
\* was unless it is still the startup value 0, which becomes the sentinel 1.
C11_ValueOfNeverMissingOnlyMarksFirstValue ==
    [][\A b \in Bindings :
          (/\ Configured(b, "missing")
           /\ cycle'.binding = b
           /\ ~cycle'.throttled
           /\ IsPresent(cycle'.data, Section)
           /\ ObservationOf(b).missing.counter = 0
           /\ Section \notin DOMAIN missing_observations)
          => LET od == ObservationOf(b).missing
             IN /\ events' = <<>>
                /\ UNCHANGED missing_observations
                /\ ObservationOf(b)'.missing =
                      [od EXCEPT !.last_sent_timestamp = IF @ = 0 THEN 1 ELSE @]]_vars

C11_Witness ==
    \E b \in Bindings :
        /\ Configured(b, "missing")
        /\ cycle.binding = b
        /\ ~cycle.throttled
        /\ IsPresent(cycle.data, Section)
        /\ Section \notin DOMAIN missing_observations
        /\ ObservationOf(b).missing.counter = 0
        /\ ObservationOf(b).missing.last_sent_timestamp = 1
        /\ events = <<>>

\* C12: a non-violating value seen by a min, max or equal check that is in a
\* violation streak emits a 'within' event exactly when the streak's
\* notification count is > 0 and return_notification is true; seen by a check
\* that is not in a violation streak it emits nothing and changes no state.
C12_WithinOnlyAfterNotifiedStreak ==
    [][\A b \in Bindings : \A k \in ValueTypes :
          (/\ Configured(b, k)
           /\ cycle'.binding = b
           /\ ~cycle'.throttled
           /\ IsPresent(cycle'.data, Section)
           /\ ~Outside(k, cycle'.data[Section][1], ObservationOf(b)[k].value))
          => LET od == ObservationOf(b)[k]
             IN IF history[b][k].streak > 0
                THEN (OfType(events', "within") # <<>>)
                        <=> (/\ od.threshold_passed[1].notification_count > 0
                             /\ od.return_notification)
                ELSE /\ events' = <<>>
                     /\ UNCHANGED <<loop_observations, archive_observations,
                                    missing_observations>>]_vars

C12_Witness ==
    \E b \in Bindings : \E k \in ValueTypes :
        /\ Configured(b, k)
        /\ cycle.binding = b
        /\ Len(events) = 1
        /\ events[1].kind = k
        /\ events[1].type = "within"
        /\ events[1].notifications_sent >= 1
        /\ ObservationOf(b)[k].return_notification
        /\ history[b][k].streak = 0

\* C13: a value that arrives for an observation in a missing streak emits a
\* 'returned' event exactly when the missing_observations entry's notification
\* count is > 0 and return_notification is true, the event carrying the
\* entry's missing time and count and the value; in every case the missing
\* check's counter becomes 0 and its last_sent_timestamp the sentinel 1.
C13_ReturnedOnlyAfterNotifiedStreak ==
    [][\A b \in Bindings :
          (/\ Configured(b, "missing")
           /\ cycle'.binding = b
           /\ ~cycle'.throttled
           /\ IsPresent(cycle'.data, Section)
           /\ history[b].missing.streak > 0)
          => LET od == ObservationOf(b).missing
                 tracker == missing_observations[Section]
                 returned == OfType(events', "returned")
             IN /\ (returned # <<>>)
                      <=> (tracker.notification_count > 0 /\ od.return_notification)
                /\ returned # <<>>
                      => /\ Len(returned) = 1
                         /\ returned[1].date_time = tracker.missing_time
                         /\ returned[1].notifications_sent = tracker.notification_count
                         /\ returned[1].current_value = cycle'.data[Section]
                /\ ObservationOf(b)'.missing.counter = 0
                /\ ObservationOf(b)'.missing.last_sent_timestamp = 1]_vars

C13_Witness ==
    \E b \in Bindings :
        /\ Configured(b, "missing")
        /\ cycle.binding = b
        /\ Len(events) = 1
        /\ events[1].type = "returned"
        /\ events[1].notifications_sent >= 1
        /\ events[1].current_value = cycle.data[Section]
        /\ ObservationOf(b).missing.counter = 0
        /\ ObservationOf(b).missing.last_sent_timestamp = 1

C15_CycleNeverRaises == ~cycle.raised

\* The condition of a check holds in the batch of the last cycle of binding b:
\* the value is outside the threshold, or the key is not in the batch.
ConditionHolds(b, k, data) ==
    IF k = "missing" THEN IsMissing(data, Section)
    ELSE IsPresent(data, Section) /\ Outside(k, data[Section][1], ObservationOf(b)[k].value)

\* C16: when the send of an entered-violation event fails, the check's
\* last_sent_timestamp and counter stay as the check left them before the
\* send, and the next evaluated cycle in which the violation still holds emits
\* the event again.
C16_FailedSendIsRepeated ==
    [][\A b \in Bindings : \A k \in CheckTypes :
          (Configured(b, k) /\ cycle'.binding = b /\ ~cycle'.throttled)
          => /\ (\E i \in 1 .. Len(events') :
                    events'[i].kind = k /\ IsEntered(events'[i]) /\ ~events'[i].sent)
                  => /\ ObservationOf(b)'[k].last_sent_timestamp
                           = ObservationOf(b)[k].last_sent_timestamp
                     /\ ObservationOf(b)'[k].counter = ObservationOf(b)[k].counter + 1
             /\ (history[b][k].failed /\ ConditionHolds(b, k, cycle'.data))
                  => Entered(events', k) # <<>>]_vars

C16_Witness ==
    \E i \in 1 .. Len(events) :
        /\ IsEntered(events[i])
        /\ events[i].notifications_sent >= 2
        /\ events[i].prev_ok = 0
        /\ ~events[i].sent
        /\ history[cycle.binding][events[i].kind].failed

\* C17 as specified: after the send of an entered-violation event of a check
\* gets HTTP 200, the check's last_sent_timestamp is the cycle's now and its
\* counter is 0.
C17_ConfirmedSendResetsTimestampAndCounter ==
    [][\A b \in Bindings : \A k \in CheckTypes :
          (/\ Configured(b, k)
           /\ cycle'.binding = b
           /\ \E i \in 1 .. Len(events') :
                 /\ events'[i].kind = k
                 /\ IsEntered(events'[i])
                 /\ events'[i].code = 200)
          => /\ ObservationOf(b)'[k].last_sent_timestamp = now'
             /\ ObservationOf(b)'[k].counter = 0]_vars

\* C18: with 'send' off every event is reported as sent, no throttle
\* timestamp ever changes, no cycle is throttled or raises, and the caller
\* records last_sent_timestamp = now for the check of every min, max, equal
\* and missing event, as after a confirmed send.
C18_DryRunAlwaysSucceeds ==
    ~notifier.send
    => /\ notifier = InitNotifier(FALSE)
       /\ ~cycle.throttled
       /\ ~cycle.raised
       /\ \A i \in 1 .. Len(events) :
             /\ events[i].sent
             /\ events[i].kind # "returned"
                  => ObservationOf(cycle.binding)[events[i].kind].last_sent_timestamp = now

C18_Witness ==
    /\ ~notifier.send
    /\ \E i \in 1 .. Len(events) :
          /\ IsEntered(events[i])
          /\ events[i].sent
          /\ events[i].notifications_sent >= 2
          /\ ObservationOf(cycle.binding)[events[i].kind].last_sent_timestamp = now

\* C19 as specified: once a send of a cycle has received a 4xx or 5xx
\* response, no later send of that cycle is attempted.
C19_NoSendAfterErrorResponse ==
    \A i \in 1 .. Len(events) : \A j \in 1 .. (i - 1) : events[j].code < 400

\* The templates of the specification, filled with the fields of event e;
\* {ts} is the first-violation or missing-since time as a local timestamp.
TemplateText(e) ==
    LET ts == FormatTimestamp(e.date_time)
        count == ToString(e.notifications_sent)
        who == Name \o Label
    IN CASE e.kind = "min" /\ e.type = "outside" ->
              "At " \o ts \o " " \o who \o " went below threshold of "
                 \o ToString(e.threshold_value[1]) \o ". Current value is "
                 \o ToString(e.current_value[1]) \o ". " \o count \o " sent."
         [] e.kind = "min" /\ e.type = "within" ->
              who \o " over Min threshold at " \o ts \o " is within threshold with value "
                 \o ToString(e.current_value[1]) \o ", " \o count \o " notifications sent."
         [] e.kind = "max" /\ e.type = "outside" ->
              "At " \o ts \o " " \o who \o " went above threshold of "
                 \o ToString(e.threshold_value[1]) \o ". Current value is "
                 \o ToString(e.current_value[1]) \o ". " \o count \o " sent."
         [] e.kind = "max" /\ e.type = "within" ->
              who \o " over Max threshold at " \o ts \o " is within threshold with value "
                 \o ToString(e.current_value[1]) \o ", " \o count \o " notifications sent."
         [] e.kind = "equal" /\ e.type = "outside" ->
              "At " \o ts \o " " \o who \o " is no longer equal to threshold of "
                 \o ToString(e.threshold_value[1]) \o ". Current value is "
                 \o ToString(e.current_value[1]) \o ". " \o count \o " sent."
         [] e.kind = "equal" /\ e.type = "within" ->
              who \o " Not Equal at " \o ts \o " is within threshold with value "
                 \o ToString(e.current_value[1]) \o ", " \o count \o " notifications sent."
         [] e.kind = "missing" /\ e.type = "missing" ->
              who \o " missing at " \o ts \o ", " \o count \o " notifications sent."
         [] e.kind = "returned" /\ e.type = "returned" ->
              who \o " missing at " \o ts \o " returned with value "
                 \o ToString(e.current_value[1]) \o ", " \o count \o " notification sent."

\* C20: the text of every notification is the template of its check kind and
\* transition, filled with the event's name, label, threshold value, current
\* value, notification count and first-violation or missing-since timestamp
\* and ended by a newline, and its title is 'Unexpected value for {name}.'.
C20_MessageFollowsTemplate ==
    \A i \in 1 .. Len(events) :
        /\ events[i].title = "Unexpected value for " \o Name \o "."
        /\ events[i].message = TemplateText(events[i]) \o "\n"

C20_Witness ==
    /\ Len(events) = 1
    /\ events[1].kind = "min"
    /\ events[1].type = "within"
    /\ events[1].title = "Unexpected value for Outdoor."
    /\ events[1].message =
          "Outdoor (north) over Min threshold at " \o FormatTimestamp(events[1].date_time)
             \o " is within threshold with value 1, 1 notifications sent.\n"

\* The position of a check kind in the order of _process_data.
Rank(kind) ==
    CASE kind = "returned" -> 1 [] kind = "min" -> 2 [] kind = "max" -> 3
      [] kind = "equal" -> 4 [] kind = "missing" -> 5

\* The kinds the last cycle checked, and the kinds it has to check for its
\* batch: value-returned, min, max and equal for a value, missing for no key.
Checked == {cycle.trace[i].kind : i \in {j \in 1 .. Len(cycle.trace) : cycle.trace[j].step = "check"}}

ToCheck ==
    LET sections == DOMAIN ObservationOf(cycle.binding)
    IN IF IsPresent(cycle.data, Section)
       THEN (sections \cap ValueTypes)
               \cup (IF "missing" \in sections THEN {"returned"} ELSE {})
       ELSE IF IsMissing(cycle.data, Section) THEN sections \cap {"missing"}
       ELSE {}

\* C21 as specified: in a cycle the checks of the observation run in the order
\* value-returned, min, max, equal, missing; each kind sends at most once; and
\* every kind the batch calls for is evaluated, whatever the earlier kinds
\* produced.
C21_AllChecksRunInOrder ==
    (cycle.binding \in Bindings /\ ~cycle.throttled)
    => /\ \A i, j \in 1 .. Len(cycle.trace) :
             i < j => Rank(cycle.trace[i].kind) <= Rank(cycle.trace[j].kind)
       /\ \A i, j \in 1 .. Len(events) : events[i].kind = events[j].kind => i = j
       /\ (IsPresent(cycle.data, Section) \/ IsMissing(cycle.data, Section))
             => Checked = ToCheck

\* C22 as specified: in a cycle every evaluation has run before the first
\* send is issued: no check follows a send.
C22_NoSendBetweenEvaluations ==
    \A i, j \in 1 .. Len(cycle.trace) :
        (i < j /\ cycle.trace[i].step = "send") => cycle.trace[j].step # "check"

\* The sends the last cycle issued, in order.
Sends == SelectSeq(cycle.trace, LAMBDA x : x.step = "send")

\* C23: when a cycle has returned, every send it issued has an outcome and the
\* outcome has been applied: last_sent_timestamp of the check is now after a
\* successful send of a min, max, equal or missing notification, and the
\* notifier holds now as the time of a 4xx or 5xx response.
C23_SendsCompleteWithinTheCycle ==
    /\ Len(Sends) = Len(events)
    /\ \A i \in 1 .. Len(events) :
          /\ Sends[i].kind = events[i].kind
          /\ (events[i].sent /\ events[i].kind # "returned")
                => ObservationOf(cycle.binding)[events[i].kind].last_sent_timestamp = now
          /\ (events[i].code >= 400 /\ events[i].code <= 499)
                => notifier.client_error_timestamp = now
          /\ (events[i].code >= 500 /\ events[i].code <= 599)
                => notifier.server_error_timestamp = now

C23_Witness ==
    /\ Len(events) = 1
    /\ Len(Sends) = 1
    /\ IsEntered(events[1])
    /\ events[1].sent
    /\ events[1].code = 200
    /\ ObservationOf(cycle.binding)[events[1].kind].last_sent_timestamp = now

\* C24 as specified: a missing_observations entry exists for the observation
\* exactly when the counter of its missing check is > 0.
C24_TrackerExistsIffMissing ==
    \A b \in Bindings :
        Configured(b, "missing")
        => (Section \in DOMAIN missing_observations
               <=> ObservationOf(b).missing.counter > 0)

\* C25: the counter of a min, max or equal check is never negative, and it is
\* 0 whenever the check has no violation record (no threshold_passed).
C25_NoRecordMeansCounterZero ==
    \A b \in Bindings : \A k \in ValueTypes :
        Configured(b, k)
        => /\ ObservationOf(b)[k].counter >= 0
           /\ ObservationOf(b)[k].threshold_passed = <<>>
                 => ObservationOf(b)[k].counter = 0

C25_Witness ==
    \E b \in Bindings : \E k \in ValueTypes :
        /\ Configured(b, k)
        /\ cycle.binding = b
        /\ OfType(events, "within") # <<>>
        /\ ObservationOf(b)[k].threshold_passed = <<>>
        /\ ObservationOf(b)[k].counter = 0

\* The notification count of a check: that of its violation record, 0 without one.
NotificationCount(od) ==
    IF od.threshold_passed = <<>> THEN 0 ELSE od.threshold_passed[1].notification_count

\* C26 as specified: while a min, max or equal check stays in violation its
\* notification count grows by one with every entered-violation event and
\* does not change otherwise; every entered-violation event reports the
\* number of such events of its streak so far; and the cycle that clears the
\* violation leaves the count 0.
C26_CountGrowsThenResets ==
    [][\A b \in Bindings : \A k \in ValueTypes :
          (Configured(b, k) /\ cycle'.binding = b)
          => LET entered == Entered(events', k)
             IN /\ (history[b][k].streak > 0 /\ history'[b][k].streak > 0)
                     => NotificationCount(ObservationOf(b)'[k])
                           = NotificationCount(ObservationOf(b)[k]) + Len(entered)
                /\ \A i \in 1 .. Len(entered) :
                      entered[i].notifications_sent = history'[b][k].emitted
                /\ (history[b][k].streak > 0 /\ history'[b][k].streak = 0)
                     => NotificationCount(ObservationOf(b)'[k]) = 0]_vars

\* C27: every 'outside' and 'within' event of a min, max or equal check carries
\* the time of the first violating cycle of its streak as date_time and the
\* value of the cycle that emits it as current_value.
C27_EventsCarryFirstViolationTime ==
    [][\A b \in Bindings : \A i \in 1 .. Len(events') :
          (cycle'.binding = b /\ events'[i].kind \in ValueTypes)
          => LET k == events'[i].kind
             IN /\ events'[i].current_value = cycle'.data[Section]
                /\ events'[i].threshold_value = Some(ObservationOf(b)[k].value)
                /\ events'[i].date_time =
                      IF events'[i].type = "outside"
                      THEN history'[b][k].first
                      ELSE history[b][k].first]_vars

C27_Witness ==
    \E b \in Bindings : \E i \in 1 .. Len(events) :
        /\ cycle.binding = b
        /\ events[i].kind \in ValueTypes
        /\ events[i].type = "outside"
        /\ events[i].notifications_sent >= 2
        /\ events[i].date_time = history[b][events[i].kind].first
        /\ events[i].date_time < now

\* C28: a 'within' or 'returned' notification is sent only if at least one
\* 'outside' (or 'missing') notification of the same streak was sent
\* successfully before it.
C28_AllClearOnlyAfterSuccessfulSend ==
    \A i \in 1 .. Len(events) :
        (events[i].type \in {"within", "returned"} /\ events[i].sent)
        => events[i].prev_sent # 0

\* C29: a value processed for an observation whose missing check still has
\* last_sent_timestamp 0 sets it to 1, whether or not missing_observations has
\* an entry; with the sentinel 1 in place a missing notification is emitted
\* only by a cycle that brings the counter to count or more.
C29_FirstValueEndsStartupBypass ==
    [][\A b \in Bindings :
          (/\ Configured(b, "missing")
           /\ cycle'.binding = b
           /\ ~cycle'.throttled)
          => LET od == ObservationOf(b).missing
             IN /\ (IsPresent(cycle'.data, Section) /\ od.last_sent_timestamp = 0)
                     => ObservationOf(b)'.missing.last_sent_timestamp = 1
                /\ (/\ IsMissing(cycle'.data, Section)
                    /\ od.last_sent_timestamp = 1
                    /\ OfType(events', "missing") # <<>>)
                     => od.counter + 1 >= od.count]_vars

C29_Witness ==
    \E b \in Bindings :
        /\ Configured(b, "missing")
        /\ cycle.binding = b
        /\ ~cycle.throttled
        /\ IsMissing(cycle.data, Section)
        /\ ObservationOf(b).missing.last_sent_timestamp = 1
        /\ ObservationOf(b).missing.count = 2
        /\ ObservationOf(b).missing.counter = 1
        /\ missing_observations[Section].missing_time = now
        /\ history[b].missing.last_ok = 0
        /\ events = <<>>

\* C30: a last_sent_timestamp that is not 0 never becomes 0 again: a cycle
\* leaves it as it was or sets it to the sentinel 1 or to the time of the
\* cycle, the latter only with a successful send of the check; so a missing
\* notification emitted below the count is emitted only while the missing
\* check's last_sent_timestamp is 0 and no missing notification has been sent.
C30_LastSentNeverReturnsToZero ==
    [][\A b \in Bindings : \A k \in CheckTypes :
          Configured(b, k)
          => LET od == ObservationOf(b)[k]
                 last_sent == ObservationOf(b)'[k].last_sent_timestamp
             IN /\ od.last_sent_timestamp # 0
                     => /\ last_sent # 0
                        /\ last_sent \in {od.last_sent_timestamp, 1, now'}
                /\ last_sent \notin {od.last_sent_timestamp, 1}
                     => /\ cycle'.binding = b
                        /\ last_sent = now'
                        /\ \E i \in 1 .. Len(events') :
                              events'[i].kind = k /\ events'[i].sent
                /\ (/\ k = "missing"
                    /\ cycle'.binding = b
                    /\ OfType(events', "missing") # <<>>
                    /\ od.counter + 1 < od.count)
                     => /\ od.last_sent_timestamp = 0
                        /\ history[b][k].last_ok = 0]_vars

C30_Witness ==
    \E b \in Bindings :
        /\ Configured(b, "missing")
        /\ cycle.binding = b
        /\ IsPresent(cycle.data, Section)
        /\ history[b].missing.last_ok > 0
        /\ ObservationOf(b).missing.last_sent_timestamp = 1
        /\ ObservationOf(b).missing.counter = 0

\* C31: a cycle whose batch does not hold the observation leaves the details
\* of the min, max and equal checks of the observation (counter,
\* last_sent_timestamp, threshold_passed) as they were and emits nothing for
\* them: the absence neither counts as a violation nor ends the streak.
C31_AbsentValueLeavesValueChecksAlone ==
    [][\A b \in Bindings : \A k \in ValueTypes :
          (/\ Configured(b, k)
           /\ cycle'.binding = b
           /\ IsMissing(cycle'.data, Section))
          => /\ ObservationOf(b)'[k] = ObservationOf(b)[k]
             /\ OfType(events', "outside") = <<>>
             /\ OfType(events', "within") = <<>>]_vars

C31_Witness ==
    \E b \in Bindings : \E k \in ValueTypes :
        /\ Configured(b, k)
        /\ cycle.binding = b
        /\ ~cycle.throttled
        /\ IsMissing(cycle.data, Section)
        /\ ObservationOf(b)[k].counter > 0
        /\ ObservationOf(b)[k].threshold_passed # <<>>
        /\ events = <<>>

\* C32: a client_error_timestamp that is not 0 is not 0 in any later state.
C32_ClientErrorIsNeverCleared ==
    [][notifier.client_error_timestamp # 0
          => notifier'.client_error_timestamp # 0]_vars

C32_Witness ==
    /\ cycle.binding \in Bindings
    /\ ~cycle.throttled
    /\ notifier.client_error_timestamp # 0
    /\ notifier.client_error_timestamp < now

\* C33: two 'Fatal error occurred ... skipped' lines that are logged by
\* consecutive cycles are at least client_error_log_frequency seconds apart.
C33_SuppressionLoggedOncePerFrequency ==
    [][(cycle.logged /\ cycle'.logged)
          => now' - now >= notifier.client_error_log_frequency]_vars

\* C34: a send answered with a code other than 200 and a body that is not JSON
\* is reported as failed without an exception, and leaves the three
\* timestamps of the notifier as the same code with a well-formed error body
\* does: the client error times are the time of the cycle after a 4xx, the
\* server error time is the time of the cycle after a 5xx, and nothing else
\* differs from what throttle_notification left.
C34_UnparsedBodyChangesNoThrottleState ==
    [][\A i \in 1 .. Len(events') :
          (events'[i].code # 200 /\ events'[i].body \in {"errors", "not_json"})
          => LET code == events'[i].code
                 client == code >= 400 /\ code < 500
                 server == code >= 500 /\ code < 600
             IN /\ ~events'[i].sent
                /\ ~cycle'.raised
                /\ Len(events') = 1
                /\ notifier'.client_error_timestamp =
                      IF client THEN now' ELSE notifier.client_error_timestamp
                /\ notifier'.client_error_last_logged =
                      IF client THEN now' ELSE notifier.client_error_last_logged
                /\ notifier'.server_error_timestamp = IF server THEN now' ELSE 0]_vars

C34_Witness ==
    /\ Len(events) = 1
    /\ events[1].code = 429
    /\ events[1].body = "not_json"
    /\ ~events[1].sent
    /\ ~cycle.raised
    /\ notifier.client_error_timestamp = now
    /\ notifier.client_error_last_logged = now
    /\ notifier.server_error_timestamp = 0

\* C36: with client_error_timestamp, client_error_last_logged and
\* server_error_timestamp all 0 a cycle at a time of server_error_wait_period
\* or later is not throttled and logs no suppression, and the three timestamps
\* stay 0 unless a send of the cycle gets a 4xx or 5xx response.
C36_NoErrorRecordedMeansNoThrottle ==
    [][(/\ notifier.client_error_timestamp = 0
        /\ notifier.client_error_last_logged = 0
        /\ notifier.server_error_timestamp = 0
        /\ now' >= notifier.server_error_wait_period)
          => /\ ~cycle'.throttled
             /\ ~cycle'.logged
             /\ (\A i \in 1 .. Len(events') : events'[i].code \notin 400 .. 599)
                  => /\ notifier'.client_error_timestamp = 0
                     /\ notifier'.client_error_last_logged = 0
                     /\ notifier'.server_error_timestamp = 0]_vars

C36_Witness ==
    /\ cycle.binding \in Bindings
    /\ ~cycle.throttled
    /\ ~cycle.resumed
    /\ Len(events) = 1
    /\ events[1].sent
    /\ notifier.client_error_timestamp = 0
    /\ notifier.client_error_last_logged = 0
    /\ notifier.server_error_timestamp = 0

\* C35: with the same observation monitored by a missing check under both
\* bindings, the missing time and the notification count that a 'missing'
\* event of a binding reports are those of that binding's own missing streak:
\* the time of the streak's first cycle and the number of its events so far.
C35_MissingEventReportsOwnStreak ==
    \A i \in 1 .. Len(events) :
        events[i].type = "missing"
        => /\ events[i].date_time = history[cycle.binding].missing.first
           /\ events[i].notifications_sent = history[cycle.binding].missing.emitted

\* C37: no check reads a record that does not exist: a min, max or equal
\* check with counter > 0 has its threshold_passed, a missing check with
\* counter > 0 has the missing_observations entry of its observation, and an
\* exception never leaves a check, only a send.
C37_ReadRecordsExist ==
    /\ \A b \in Bindings : \A k \in ValueTypes :
          (Configured(b, k) /\ ObservationOf(b)[k].counter > 0)
          => ObservationOf(b)[k].threshold_passed # <<>>
    /\ \A b \in Bindings :
          (Configured(b, "missing") /\ ObservationOf(b).missing.counter > 0)
          => Section \in DOMAIN missing_observations
    /\ cycle.raised
          => /\ cycle.trace # <<>>
             /\ cycle.trace[Len(cycle.trace)].step = "send"

C37_Witness ==
    \E b \in Bindings :
        /\ Configured(b, "missing")
        /\ cycle.binding = b
        /\ Len(events) = 1
        /\ events[1].type = "returned"
        /\ events[1].sent
        /\ events[1].date_time = missing_observations[Section].missing_time
        /\ ObservationOf(b).missing.counter = 0

\* The last cycle sent an 'outside' or 'missing' notification successfully.
EnteredSent == \E i \in 1 .. Len(events) : IsEntered(events[i]) /\ events[i].sent

\* C38: while the condition of a check persists, cycles keep arriving and
\* every send succeeds, each successful 'outside' or 'missing' notification is
\* followed by another one: a notification sent at a time that leaves room
\* for the wait time before the clock's bound leads to one sent later.
C38_NotificationsKeepBeingSent ==
    \A t \in (StartTime - Period) .. (StartTime + MaxTime - Period) :
        (EnteredSent /\ now = t) ~> (EnteredSent /\ now > t)

C38_Witness ==
    /\ EnteredSent
    /\ events[1].notifications_sent >= 2
    /\ events[1].prev_ok > 0
    /\ events[1].prev_ok + Period <= now

====
